---- MODULE Spec2Model ----
(***************************************************************************)
(* Model of LAS-KGS.py: a script that reads a well-log table, cleans and   *)
(* filters it, adds a computed shale-volume column, and builds the four    *)
(* polygons of a stacked "fraction" panel.                                 *)
(*                                                                         *)
(* Units.  Curve values are integers in the curve's own unit.  Fractional  *)
(* series values are integers in thousandths (0.292 is 292).  Depths are   *)
(* integers; a well's rows are DepthStep apart, so that the five evenly    *)
(* spaced depths of numpy.linspace are integers too.  A float NaN is the   *)
(* reserved value NaN; every comparison and arithmetic step treats it as   *)
(* IEEE arithmetic does.  A quotient is kept exact as [num, den]; 0/0 is   *)
(* the float NaN.                                                          *)
(***************************************************************************)
EXTENDS Integers, Sequences, FiniteSets, TLC

VARIABLES las, df, df_selected, df_dropped, df_filt, df_idx,
          series, min_depth, max_depth, min_coord, max_coord, depths,
          heap, fraction, i, polygon, pc

vars == <<las, df, df_selected, df_dropped, df_filt, df_idx,
          series, min_depth, max_depth, min_coord, max_coord, depths,
          heap, fraction, i, polygon, pc>>

(***************************************************************************)
(* Bounds of the input domain and constants of the program.                *)
(***************************************************************************)
MaxRows == 3
MaxLevel == 2
MaxSkew == 1

NaN == -99925
num_series == 4
NumDepths == 5
DepthStep == NumDepths - 1

(***************************************************************************)
(* Generic helpers.                                                        *)
(***************************************************************************)
Range(s) == {s[j] : j \in 1..Len(s)}

Reverse(s) == [j \in 1..Len(s) |-> s[Len(s) + 1 - j]]

IsNaN(x) == x = NaN

SetMin(S) == CHOOSE x \in S : \A y \in S : x <= y

SetMax(S) == CHOOSE x \in S : \A y \in S : x >= y

(***************************************************************************)
(* Tables.  A table is [columns, rows]; a row maps "index" and every       *)
(* column name to a value.  las.df() indexes the rows by depth.            *)
(***************************************************************************)
EmptyTable == [columns |-> <<>>, rows |-> <<>>]

LasColumns == <<"CNPOR", "GR", "RHOB", "DT", "MELCAL", "SPOR", "RILD">>

SelectedColumns == <<"CNPOR", "GR", "RHOB", "DT", "MELCAL", "SPOR">>

RequiredColumns == {"GR", "DT", "SPOR"}

Curves(cn, gr, rh, dt, me, sp) ==
    [CNPOR |-> cn, GR |-> gr, RHOB |-> rh, DT |-> dt, MELCAL |-> me, SPOR |-> sp, RILD |-> 7]

\* The kinds of row a log file can hold: complete rows, rows with a null in
\* a required or a non-required curve, and rows outside the normal ranges.
RowKinds ==
    { Curves(10, 50, 2, 80, 8, 20),
      Curves(20, 120, 2, 140, 9, 35),
      Curves(10, NaN, 2, 80, 8, 20),
      Curves(10, 50, 2, 30, 8, 20),
      Curves(60, 300, 5, 100, 8, 25),
      Curves(NaN, 50, NaN, 100, NaN, 25),
      Curves(10, 90, 2, 80, 8, NaN),
      Curves(10, 90, 2, 150, 8, 162) }

AtDepth(c, d) == [col \in {"index"} \cup Range(LasColumns) |->
                     IF col = "index" THEN d ELSE c[col]]

\* Row k of the file is at depth (k-1)*DepthStep.
LasTable(kinds) ==
    [columns |-> LasColumns,
     rows |-> [k \in 1..Len(kinds) |-> AtDepth(kinds[k], (k - 1) * DepthStep)]]

KindSeqs == UNION {[1..n -> RowKinds] : n \in 0..MaxRows}

RefTable == LasTable(<<Curves(10, 50, 2, 80, 8, 20), Curves(20, 120, 2, 140, 9, 35)>>)

\* df[['CNPOR', ...]]: the projection on the named columns, index kept.
Select(t, cols) ==
    [columns |-> cols,
     rows |-> [k \in 1..Len(t.rows) |->
                  [col \in {"index"} \cup Range(cols) |-> t.rows[k][col]]]]

\* Variant: how='all', a row stays when some subset column is not null.
KeepRowAll(r, subset) == \E col \in subset : ~IsNaN(r[col])

\* dropna(how='any'): a row stays when none of the subset columns is null.
KeepRow(r, subset) == \A col \in subset : ~IsNaN(r[col])

RECURSIVE FilterRows(_, _, _)
FilterRows(rows, subset, k) ==
    IF k > Len(rows) THEN <<>>
    ELSE (IF KeepRow(rows[k], subset) THEN <<rows[k]>> ELSE <<>>)
         \o FilterRows(rows, subset, k + 1)

\* df_selected.dropna(subset=[...], axis=0, how='any') returns a new table.
DropNa(t, subset) == [columns |-> t.columns, rows |-> FilterRows(t.rows, subset, 1)]

\* (col > low) & (col <= high); a comparison with NaN is False.
InRange(v, low, high) == ~IsNaN(v) /\ v > low /\ v <= high

RECURSIVE MaskRows(_, _, _, _, _)
MaskRows(rows, col, low, high, k) ==
    IF k > Len(rows) THEN <<>>
    ELSE (IF InRange(rows[k][col], low, high) THEN <<rows[k]>> ELSE <<>>)
         \o MaskRows(rows, col, low, high, k + 1)

\* Variant: each filter statement indexes the result of the one before.
FilterBaseChained(dropped, filt) == IF filt = EmptyTable THEN dropped ELSE filt

\* Every filter statement indexes df_dropped, whatever df_filt holds.
FilterBase(dropped, filt) == dropped

\* t[(t.X > low) & (t.X <= high)]
FilterRange(t, col, low, high) ==
    [columns |-> t.columns, rows |-> MaskRows(t.rows, col, low, high, 1)]

\* Series.min() and Series.max() skip nulls and are NaN when nothing is left.
ColValues(t, col) == {t.rows[k][col] : k \in 1..Len(t.rows)} \ {NaN}

ColMin(t, col) == IF ColValues(t, col) = {} THEN NaN ELSE SetMin(ColValues(t, col))

ColMax(t, col) == IF ColValues(t, col) = {} THEN NaN ELSE SetMax(ColValues(t, col))

Sub(x, y) == IF IsNaN(x) \/ IsNaN(y) THEN NaN ELSE x - y

NaNRatio == [num |-> 0, den |-> 0]

\* Float division: NaN operands and 0/0 give NaN.
Div(n, d) == IF IsNaN(n) \/ IsNaN(d) THEN NaNRatio ELSE [num |-> n, den |-> d]

RatioIsNaN(q) == q.den = 0 /\ q.num = 0

\* Variant: the range taken one unit short.
VshOfShortRange(gr, lo, hi) == Div(Sub(gr, lo), Sub(Sub(hi, lo), 1))

\* (df.GR - df.GR.min()) / (df.GR.max() - df.GR.min()), for one row.
VshOf(gr, lo, hi) == Div(Sub(gr, lo), Sub(hi, lo))

\* df['Vsh'] = ...: the column is added even when the table has no rows.
WithVsh(t) ==
    [columns |-> Append(t.columns, "Vsh"),
     rows |-> [k \in 1..Len(t.rows) |->
                  [col \in DOMAIN t.rows[k] \cup {"Vsh"} |->
                      IF col = "Vsh"
                      THEN VshOf(t.rows[k].GR, ColMin(t, "GR"), ColMax(t, "GR"))
                      ELSE t.rows[k][col]]]]

\* df.rename_axis('Depth').reset_index(): the depth index becomes the first
\* column and the rows are indexed by position.
ResetIndex(t) ==
    [columns |-> <<"Depth">> \o t.columns,
     rows |-> [k \in 1..Len(t.rows) |->
                  [col \in DOMAIN t.rows[k] \cup {"Depth"} |->
                      IF col = "Depth" THEN t.rows[k].index
                      ELSE IF col = "index" THEN k - 1
                      ELSE t.rows[k][col]]]]

VshValues(t) == {k \in 1..Len(t.rows) : ~RatioIsNaN(t.rows[k].Vsh)}

\* set_ylim(top, bot) and set_xlim(col.min(), col.max()) raise ValueError
\* ("Axis limits cannot be NaN or Inf") when a limit is NaN.
AxisLimitsOk(logs) ==
    /\ ~IsNaN(ColMin(logs, "Depth"))
    /\ \A col \in {"GR", "CNPOR", "DT", "MELCAL", "RHOB"} : ~IsNaN(ColMin(logs, col))
    /\ VshValues(logs) # {}

(***************************************************************************)
(* The fraction series.  The four series of the script, and the variants   *)
(* the input domain adds: flat series at several levels (one of them       *)
(* negative) and series shorter or longer than the depth array.            *)
(***************************************************************************)
series1 == <<292, 333, 200, 458, 292>>

series2 == <<83, 125, 167, 125, 83>>

series3 == <<292, 333, 292, 83, 83>>

series4 == <<333, 208, 341, 333, 542>>

RefSeries == <<series1, series2, series3, series4>>

FlatSeries(v) == [j \in 1..NumDepths |-> v]

Resized(s, n) == [j \in 1..n |-> IF j <= Len(s) THEN s[j] ELSE s[Len(s)]]

SeriesPool ==
    Range(RefSeries)
    \cup {FlatSeries((l - 1) * 125) : l \in 0..MaxLevel}
    \cup {Resized(series1, n) : n \in (NumDepths - MaxSkew)..(NumDepths + MaxSkew)}

(***************************************************************************)
(* Python lists.  A list is a sequence of references into the heap of      *)
(* inner [value, depth] lists; heap[r] is the content of the inner list r. *)
(***************************************************************************)
NewRef(hp) == Len(hp) + 1

Alloc(hp, cell) == Append(hp, cell)

Deref(hp, refs) == [j \in 1..Len(refs) |-> hp[refs[j]]]

\* numpy.linspace(lo, hi, n): n evenly spaced values from lo to hi.
Linspace(lo, hi, n) == [j \in 1..n |-> lo + ((j - 1) * (hi - lo)) \div (n - 1)]

\* [[]]*n, four times: each list holds n references to one new empty list.
NewFractions(hp, n) ==
    [heap |-> hp \o [k \in 1..num_series |-> <<>>],
     fraction |-> [k \in 1..num_series |-> [j \in 1..n |-> Len(hp) + k]]]

\* Variant: the inner list the slot refers to is overwritten in place.
StoreInPlace(st, k, j, cell) ==
    [heap |-> [st.heap EXCEPT ![st.fraction[k][j]] = cell],
     fraction |-> st.fraction]

\* fraction_k[j] = [value, depth]: slot j of list k refers to a new list.
StoreItem(st, k, j, cell) ==
    [heap |-> Alloc(st.heap, cell),
     fraction |-> [st.fraction EXCEPT ![k][j] = NewRef(st.heap)]]

\* Variant: the series value alone, not stacked on the earlier series.
FractionValueAlone(s, k, j) == s[k][j]

\* The right-hand sides of the four assignments of the loop body.
FractionValue(s, k, j) ==
    CASE k = 1 -> s[1][j]
      [] k = 2 -> s[2][j] + s[1][j]
      [] k = 3 -> s[3][j] + s[2][j] + s[1][j]
      [] k = 4 -> s[4][j] + s[3][j] + s[2][j] + s[1][j]

\* Statement k of the loop body reads series_k[j] .. series_1[j]; a read
\* past the end of a list raises IndexError.
ReadFails(s, k, j) == \E m \in 1..k : Len(s[m]) < j

\* Statements k..4 of the loop body for sample j (1-based), in order; stops
\* at the first one that raises, keeping what the earlier ones stored.
RECURSIVE LoopBody(_, _, _, _, _)
LoopBody(st, s, d, k, j) ==
    IF k > num_series THEN [heap |-> st.heap, fraction |-> st.fraction, ok |-> TRUE]
    ELSE IF ReadFails(s, k, j)
         THEN [heap |-> st.heap, fraction |-> st.fraction, ok |-> FALSE]
         ELSE LoopBody(StoreItem(st, k, j, <<FractionValue(s, k, j), d[j]>>),
                       s, d, k + 1, j)

\* Variant: the two anchors of the first polygon in the other order.
PolygonsSwappedAnchors(maxc, minc, fr) ==
    <<minc \o maxc \o fr[1],
      fr[1] \o Reverse(fr[2]),
      fr[2] \o Reverse(fr[3]),
      fr[3] \o Reverse(fr[4])>>

\* polygon1 .. polygon4 (each is wrapped in a one-element list for
\* ContourSet; the model keeps the vertex list).
Polygons(maxc, minc, fr) ==
    <<maxc \o minc \o fr[1],
      fr[1] \o Reverse(fr[2]),
      fr[2] \o Reverse(fr[3]),
      fr[3] \o Reverse(fr[4])>>

(***************************************************************************)
(* The script, statement by statement.                                     *)
(***************************************************************************)
TableVars == <<las, df, df_selected, df_dropped, df_filt, df_idx>>

PolyVars == <<series, min_depth, max_depth, min_coord, max_coord, depths,
              heap, fraction, i, polygon>>

Init ==
    /\ las \in {LasTable(ks) : ks \in KindSeqs}
    /\ series \in [1..num_series -> SeriesPool]
    /\ las = RefTable \/ series = RefSeries
    /\ df = las
    /\ df_selected = EmptyTable
    /\ df_dropped = EmptyTable
    /\ df_filt = EmptyTable
    /\ df_idx = EmptyTable
    /\ min_depth = NaN
    /\ max_depth = NaN
    /\ min_coord = <<>>
    /\ max_coord = <<>>
    /\ depths = <<>>
    /\ heap = <<>>
    /\ fraction = <<>>
    /\ i = 0
    /\ polygon = <<>>
    /\ pc = "select"

SelectLogs ==
    /\ pc = "select"
    /\ df_selected' = Select(df, SelectedColumns)
    /\ pc' = "dropna"
    /\ UNCHANGED <<las, df, df_dropped, df_filt, df_idx>>
    /\ UNCHANGED PolyVars

DropRows ==
    /\ pc = "dropna"
    /\ df_dropped' = DropNa(df_selected, RequiredColumns)
    /\ pc' = "filterCNPOR"
    /\ UNCHANGED <<las, df, df_selected, df_filt, df_idx>>
    /\ UNCHANGED PolyVars

FilterCNPOR ==
    /\ pc = "filterCNPOR"
    /\ df_filt' = FilterRange(FilterBase(df_dropped, df_filt), "CNPOR", -15, 50)
    /\ pc' = "filterGR"
    /\ UNCHANGED <<las, df, df_selected, df_dropped, df_idx>>
    /\ UNCHANGED PolyVars

FilterGR ==
    /\ pc = "filterGR"
    /\ df_filt' = FilterRange(FilterBase(df_dropped, df_filt), "GR", 0, 250)
    /\ pc' = "filterRHOB"
    /\ UNCHANGED <<las, df, df_selected, df_dropped, df_idx>>
    /\ UNCHANGED PolyVars

FilterRHOB ==
    /\ pc = "filterRHOB"
    /\ df_filt' = FilterRange(FilterBase(df_dropped, df_filt), "RHOB", 1, 3)
    /\ pc' = "filterDT"
    /\ UNCHANGED <<las, df, df_selected, df_dropped, df_idx>>
    /\ UNCHANGED PolyVars

FilterDT ==
    /\ pc = "filterDT"
    /\ df_filt' = FilterRange(FilterBase(df_dropped, df_filt), "DT", 30, 140)
    /\ pc' = "copy"
    /\ UNCHANGED <<las, df, df_selected, df_dropped, df_idx>>
    /\ UNCHANGED PolyVars

CopyFiltered ==
    /\ pc = "copy"
    /\ df' = df_filt
    /\ pc' = "vsh"
    /\ UNCHANGED <<las, df_selected, df_dropped, df_filt, df_idx>>
    /\ UNCHANGED PolyVars

AddVsh ==
    /\ pc = "vsh"
    /\ df' = WithVsh(df)
    /\ pc' = "reindex"
    /\ UNCHANGED <<las, df_selected, df_dropped, df_filt, df_idx>>
    /\ UNCHANGED PolyVars

Reindex ==
    /\ pc = "reindex"
    /\ df_idx' = ResetIndex(df)
    /\ pc' = "log_plot"
    /\ UNCHANGED <<las, df, df_selected, df_dropped, df_filt>>
    /\ UNCHANGED PolyVars

\* log_plot(df_idx): draws; stops the script when an axis limit is NaN.
LogPlot ==
    /\ pc = "log_plot"
    /\ pc' = IF AxisLimitsOk(df_idx) THEN "log_plotter" ELSE "ValueError"
    /\ UNCHANGED TableVars
    /\ UNCHANGED PolyVars

LogPlotter ==
    /\ pc = "log_plotter"
    /\ pc' = IF AxisLimitsOk(df_idx) THEN "coords" ELSE "ValueError"
    /\ UNCHANGED TableVars
    /\ UNCHANGED PolyVars

\* min_depth, min_coord, max_depth, max_coord, depths.
SetCoords ==
    /\ pc = "coords"
    /\ min_depth' = ColMin(df_idx, "Depth")
    /\ max_depth' = ColMax(df_idx, "Depth")
    /\ heap' = Alloc(Alloc(heap, <<0, ColMin(df_idx, "Depth")>>),
                     <<0, ColMax(df_idx, "Depth")>>)
    /\ min_coord' = <<NewRef(heap)>>
    /\ max_coord' = <<NewRef(heap) + 1>>
    /\ depths' = Linspace(ColMin(df_idx, "Depth"), ColMax(df_idx, "Depth"), NumDepths)
    /\ pc' = "alloc"
    /\ UNCHANGED TableVars
    /\ UNCHANGED <<series, fraction, i, polygon>>

AllocFractions ==
    /\ pc = "alloc"
    /\ heap' = NewFractions(heap, Len(depths)).heap
    /\ fraction' = NewFractions(heap, Len(depths)).fraction
    /\ i' = 0
    /\ pc' = "loop"
    /\ UNCHANGED TableVars
    /\ UNCHANGED <<series, min_depth, max_depth, min_coord, max_coord, depths, polygon>>

\* One iteration of "for i in range(len(depths))".
LoopStep ==
    /\ pc = "loop"
    /\ i < Len(depths)
    /\ LET r == LoopBody([heap |-> heap, fraction |-> fraction], series, depths, 1, i + 1)
       IN /\ heap' = r.heap
          /\ fraction' = r.fraction
          /\ i' = IF r.ok THEN i + 1 ELSE i
          /\ pc' = IF ~r.ok THEN "IndexError"
                   ELSE IF i + 1 < Len(depths) THEN "loop" ELSE "polygons"
    /\ UNCHANGED TableVars
    /\ UNCHANGED <<series, min_depth, max_depth, min_coord, max_coord, depths, polygon>>

BuildPolygons ==
    /\ pc = "polygons"
    /\ polygon' = Polygons(max_coord, min_coord, fraction)
    /\ pc' = "panel"
    /\ UNCHANGED TableVars
    /\ UNCHANGED <<series, min_depth, max_depth, min_coord, max_coord, depths,
                   heap, fraction, i>>

\* The standalone fraction panel: ContourSet over the four polygons.
PlotPanel ==
    /\ pc = "panel"
    /\ Len(polygon) = num_series
    /\ pc' = "combo"
    /\ UNCHANGED TableVars
    /\ UNCHANGED PolyVars

\* log_plot_combo(df_idx, polygons, depths).
LogPlotCombo ==
    /\ pc = "combo"
    /\ pc' = IF AxisLimitsOk(df_idx) THEN "done" ELSE "ValueError"
    /\ UNCHANGED TableVars
    /\ UNCHANGED PolyVars

Next ==
    \/ SelectLogs
    \/ DropRows
    \/ FilterCNPOR
    \/ FilterGR
    \/ FilterRHOB
    \/ FilterDT
    \/ CopyFiltered
    \/ AddVsh
    \/ Reindex
    \/ LogPlot
    \/ LogPlotter
    \/ SetCoords
    \/ AllocFractions
    \/ LoopStep
    \/ BuildPolygons
    \/ PlotPanel
    \/ LogPlotCombo

Spec == Init /\ [][Next]_vars

(***************************************************************************)
(* Stages of the script, and the values the lists refer to.                *)
(***************************************************************************)
AfterSelect == pc # "select"

AfterDropna == pc \notin {"select", "dropna"}

AfterFilter == AfterDropna /\ pc \notin {"filterCNPOR", "filterGR", "filterRHOB", "filterDT"}

AfterVsh == AfterFilter /\ pc \notin {"copy", "vsh"}

LoopDone == pc \in {"polygons", "panel", "combo", "done"}

Built == pc \in {"panel", "combo", "done"}

M == Len(depths)

FracVal(k) == Deref(heap, fraction[k])

PolyVal(k) == Deref(heap, polygon[k])

RECURSIVE Cum(_, _, _)
Cum(s, k, j) == IF k = 0 THEN 0 ELSE s[k][j] + Cum(s, k - 1, j)

\* V[k]: the vertex pairs of cumulative series k, from the inputs.
V(k) == [j \in 1..M |-> <<Cum(series, k, j), depths[j]>>]

SameLengths == \A k \in 1..num_series : Len(series[k]) = M

Pos(refs, r) == CHOOSE p \in 1..Len(refs) : refs[p] = r

C2_FractionLists ==
    (pc = "loop" \/ LoopDone) =>
        /\ LoopDone => i = M
        /\ \A k \in 1..num_series :
              /\ Len(fraction[k]) = M
              /\ \A j \in 1..M :
                    FracVal(k)[j] = IF j <= i THEN <<Cum(series, k, j), depths[j]>>
                                    ELSE <<>>

C2_Witness ==
    /\ LoopDone
    /\ series = RefSeries
    /\ FracVal(4)[1] = <<1000, depths[1]>>
    /\ FracVal(1)[5] = <<292, depths[5]>>

(***************************************************************************)
(* C3.  After the four filter statements the working table is the dropped  *)
(* table restricted to the rows with 30 < DT <= 140: a row whose DT is in  *)
(* range stays whatever its CNPOR, GR or RHOB.                             *)
(***************************************************************************)
DTInRange(r) == r.DT # NaN /\ r.DT > 30 /\ r.DT <= 140

Complete(r) == r.GR # NaN /\ r.DT # NaN /\ r.SPOR # NaN

C4_DropIncomplete ==
    AfterDropna =>
        /\ df_selected = Select(las, SelectedColumns)
        /\ df_dropped.columns = df_selected.columns
        /\ df_dropped.rows = SelectSeq(df_selected.rows, Complete)
        /\ \A k \in 1..Len(df_dropped.rows) : Complete(df_dropped.rows[k])

C4_Witness ==
    /\ AfterDropna
    /\ Len(df_dropped.rows) = 2
    /\ Len(df_selected.rows) = 3
    /\ \E k \in 1..Len(df_dropped.rows) :
          /\ df_dropped.rows[k].CNPOR = NaN
          /\ df_dropped.rows[k].RHOB = NaN
          /\ df_dropped.rows[k].MELCAL = NaN

(***************************************************************************)
(* C5.  As claimed: on a non-empty filtered table every Vsh is in [0,1],   *)
(* exactly one row has Vsh 0 and exactly one row has Vsh 1.                *)
(***************************************************************************)
InUnit(q) == q.den > 0 /\ 0 <= q.num /\ q.num <= q.den

IsZero(q) == q.den > 0 /\ q.num = 0

IsOne(q) == q.den > 0 /\ q.num = q.den

RowsWhere(Test(_)) == {k \in 1..Len(df.rows) : Test(df.rows[k].Vsh)}

C5_ExactlyOne ==
    (AfterVsh /\ Len(df.rows) > 0) =>
        /\ \A k \in 1..Len(df.rows) : InUnit(df.rows[k].Vsh)
        /\ Cardinality(RowsWhere(IsZero)) = 1
        /\ Cardinality(RowsWhere(IsOne)) = 1

(***************************************************************************)
(* C5, amended.  On a non-empty filtered table whose GR values are not all *)
(* equal, every Vsh is in [0,1], the rows with Vsh 0 are the rows holding  *)
(* the least GR and the rows with Vsh 1 are the rows holding the greatest  *)
(* GR (at least one of each, possibly several).  When all GR values are    *)
(* equal, every Vsh is NaN.                                                *)
(***************************************************************************)
LeastGR(k) == \A m \in 1..Len(df.rows) : df.rows[k].GR <= df.rows[m].GR

GreatestGR(k) == \A m \in 1..Len(df.rows) : df.rows[k].GR >= df.rows[m].GR

C5_MinMaxNormalised ==
    (AfterVsh /\ Len(df.rows) > 0) =>
        IF \E k, m \in 1..Len(df.rows) : df.rows[k].GR # df.rows[m].GR
        THEN /\ \A k \in 1..Len(df.rows) : InUnit(df.rows[k].Vsh)
             /\ RowsWhere(IsZero) = {k \in 1..Len(df.rows) : LeastGR(k)}
             /\ RowsWhere(IsOne) = {k \in 1..Len(df.rows) : GreatestGR(k)}
             /\ RowsWhere(IsZero) # {}
             /\ RowsWhere(IsOne) # {}
        ELSE \A k \in 1..Len(df.rows) : RatioIsNaN(df.rows[k].Vsh)

C5_Witness ==
    /\ AfterVsh
    /\ Cardinality(RowsWhere(IsZero)) = 2
    /\ Cardinality(RowsWhere(IsOne)) = 1

(***************************************************************************)
(* C6.  As claimed: when a series and the depth array differ in length,    *)
(* the build stops with LengthMismatchError before any slot of a fraction  *)
(* list is assigned and before any polygon is built.                       *)
(***************************************************************************)
LengthMismatch == depths # <<>> /\ ~SameLengths

C6_FailsFast ==
    (LengthMismatch /\ fraction # <<>>) =>
        /\ \A k \in 1..num_series : \A j \in 1..Len(fraction[k]) : FracVal(k)[j] = <<>>
        /\ polygon = <<>>
        /\ pc # "IndexError"

(***************************************************************************)
(* C7.  As claimed: on a table with no rows the Vsh step stops with        *)
(* EmptyTableError and adds no column.                                     *)
(***************************************************************************)
C7_EmptyTableFails ==
    (AfterVsh /\ Len(df_filt.rows) = 0) =>
        /\ pc = "EmptyTableError"
        /\ "Vsh" \notin Range(df.columns)

(***************************************************************************)
(* C8.  As claimed: in the polygon of component k > 0 the vertices of      *)
(* cumulative series k come in increasing sample order and the vertices of *)
(* cumulative series k-1 come in decreasing sample order.                  *)
(***************************************************************************)
C8_UpperForwardLowerBackward ==
    Built =>
        \A k \in 2..num_series : \A a, b \in 1..M :
            a < b =>
                /\ Pos(polygon[k], fraction[k][a]) < Pos(polygon[k], fraction[k][b])
                /\ Pos(polygon[k], fraction[k - 1][a]) > Pos(polygon[k], fraction[k - 1][b])

(***************************************************************************)
(* C9.  As claimed: for the four series of the script the last cumulative  *)
(* series is 1 (1000 thousandths) at every sample.                         *)
(***************************************************************************)
C9_SumsToOne ==
    (LoopDone /\ series = RefSeries) =>
        \A j \in 1..M : FracVal(4)[j][1] = 1000

(***************************************************************************)
(* C10.  The polygons tile the ribbon: the first M vertices of polygon k+1 *)
(* are the vertices V[k] that close polygon k (its last M vertices, read   *)
(* in reverse for k >= 1), at the same depths; and when no series value is *)
(* negative the cumulative value of component k is at least that of        *)
(* component k-1 at every sample.                                          *)
(***************************************************************************)
NonNegative == \A k \in 1..num_series : \A j \in 1..Len(series[k]) : series[k][j] >= 0

====
